---------------------------- MODULE Spec2Model ----------------------------
(***************************************************************************)
(* Model of the chat relay of src/index.js (socket.io server), of the      *)
(* message routes of src/routes/messages.js and of the channel routes.     *)
(*                                                                         *)
(* State: the sockets created so far with the token each presented, the    *)
(* presence structures (onlineUsers, userSockets), socket.io's room        *)
(* membership, the Message and Channel collections, and the asynchronous   *)
(* handlers that are suspended at an await.  Every await on the store is   *)
(* a step boundary: other events may be handled between two steps of a     *)
(* handler.                                                                *)
(* `out' holds the events emitted by the last step, in emission order.     *)
(***************************************************************************)
EXTENDS Integers, Sequences, FiniteSets, TLC

VARIABLES
    live,         \* socket ids of the connected sockets
    sockUser,     \* socket.user.userId of every socket accepted so far
    sockToken,    \* socket.handshake.auth.token of every socket created so far
    nextSock,     \* socket ids are unique: the id given to the next socket
    onlineUsers,  \* index.js:50
    userSockets,  \* index.js:51
    rooms,        \* socket.io adapter: room id -> joined sockets
    store,        \* the Message collection, in creation order
    channels,     \* the Channel collection
    inflight,     \* handlers suspended at an await
    now,          \* the clock read by new Date()
    nops,         \* edit/delete/read/react requests accepted so far
    reactHist,    \* history: per message and user, the last two saved reacts
    arrived,      \* history: the handlers in flight, in the order they began
    out           \* events emitted by the last step

vars == <<live, sockUser, sockToken, nextSock, onlineUsers, userSockets, rooms,
          store, channels, inflight, now, nops, reactHist, arrived, out>>

-----------------------------------------------------------------------------
(* Bounds *)
MaxSockets == 3
MaxMsgs == 1
MaxInflight == 2
MaxOps == 3
MaxMsgSockets == 2

Users == {"u1", "u2"}
Rooms == {"r1"}
Emojis == {"E", "F"}
ChannelNames == {"c1", "c2"}
\* the ids a chatMessage can name as its channel: the rooms, and a channel
\* that no connection has joined
ChannelIds == Rooms \cup {"r2"}
Contents == {"a", "b"}
Sockets == 1 .. MaxSockets
MsgIds == 1 .. MaxMsgs
Slots == 1 .. MaxInflight

NoSock == 0
NoUser == "none"
NoRoom == "none"
NoMsg == 0
NoContent == "absent"

-----------------------------------------------------------------------------
(* Helpers on sequences *)

RECURSIVE SeqOfSet(_)
SeqOfSet(S) ==
    IF S = {} THEN << >>
    ELSE LET x == CHOOSE y \in S : TRUE IN <<x>> \o SeqOfSet(S \ {x})

Range(seq) == {seq[i] : i \in 1 .. Len(seq)}

\* number of entries of a sequence that satisfy P
Count(seq, P(_)) == Cardinality({i \in 1 .. Len(seq) : P(seq[i])})

-----------------------------------------------------------------------------
(* Emitted events.  `to' is the set of sockets the event is written to. *)

Ev(name, to, user, info, users, room, msg) ==
    [ev |-> name, to |-> to, user |-> user, info |-> info, users |-> users,
     room |-> room, msg |-> msg]

\* io.emit(...): every connected socket of the namespace
ToAll(conn) == conn
\* io.to(roomId): the sockets joined to the room
ToRoom(rms, r) == IF r \in Rooms THEN rms[r] ELSE {}
\* io.to(socketId): the private room of a socket, empty once it has left
ToSocketId(conn, s) == {s} \cap conn
\* socket.emit(...): the socket itself; the packet is dropped once it is closed
ToSelf(conn, s) == {s} \cap conn

-----------------------------------------------------------------------------
(* Documents of the Message collection (models/Message.js) *)

NewMessage(sender, type, channel, recipient, content, deliveredTo) ==
    [sender |-> sender, type |-> type, channel |-> channel,
     recipient |-> recipient, content |-> content, messageType |-> "text",
     isDeleted |-> FALSE, isEdited |-> FALSE, editedAt |-> 0,
     deliveredTo |-> deliveredTo, readBy |-> << >>, reactions |-> << >>,
     v |-> 0]

NoDoc == NewMessage(NoUser, "none", NoRoom, NoUser, "", << >>)

Idle == [kind |-> "idle", pc |-> "idle", sock |-> NoSock, user |-> NoUser,
         room |-> NoRoom, msg |-> NoMsg, doc |-> NoDoc, emoji |-> "",
         content |-> "", reader |-> NoUser]

Handler(kind, pc, sock, user, room, msg, doc, emoji, content, reader) ==
    [kind |-> kind, pc |-> pc, sock |-> sock, user |-> user, room |-> room,
     msg |-> msg, doc |-> doc, emoji |-> emoji, content |-> content,
     reader |-> reader]

-----------------------------------------------------------------------------
(* Tokens.  A token names a user and either carries a signature made with   *)
(* JWT_SECRET or does not; the client that sends no token sends NoToken.    *)

NoToken == [user |-> NoUser, signed |-> FALSE]
SignedToken(u) == [user |-> u, signed |-> TRUE]
Tokens == {NoToken} \cup [user : Users, signed : BOOLEAN]

\* jwt.decode: the payload, whatever the signature
VerifyUnchecked(tok) == tok.user

\* jwt.verify(token, JWT_SECRET): the decoded user, or NoUser for err
Verify(tok) == IF tok.signed THEN tok.user ELSE NoUser

-----------------------------------------------------------------------------
Init ==
    /\ live = {}
    /\ sockUser = [s \in Sockets |-> NoUser]
    /\ sockToken = [s \in Sockets |-> NoToken]
    /\ nextSock = 1
    /\ onlineUsers = {}
    /\ userSockets = [u \in Users |-> NoSock]
    /\ rooms = [r \in Rooms |-> {}]
    /\ store = << >>
    /\ channels = {}
    /\ inflight = [h \in Slots |-> Idle]
    /\ now = 0
    /\ nops = 0
    /\ reactHist = [m \in MsgIds |-> [u \in Users |-> << >>]]
    /\ arrived = << >>
    /\ out = << >>

-----------------------------------------------------------------------------
(* Connection lifecycle *)

\* io.on('connection'): the socket that presented token tok, after the
\* middleware has set socket.user to the decoded user u
Accept(tok, u) ==
    /\ nextSock <= MaxSockets
    /\ LET s == nextSock IN
        /\ live' = live \cup {s}
        /\ sockUser' = [sockUser EXCEPT ![s] = u]
        /\ sockToken' = [sockToken EXCEPT ![s] = tok]
        /\ nextSock' = s + 1
        /\ userSockets' = [userSockets EXCEPT ![u] = s]
        /\ onlineUsers' = onlineUsers \cup {u}
        /\ out' = << Ev("userStatus", ToAll(live'), u, "online", {}, NoRoom, NoMsg),
                     Ev("currentOnline", ToSelf(live', s), NoUser, "", onlineUsers',
                        NoRoom, NoMsg) >>
    /\ UNCHANGED <<rooms, store, channels, inflight, now, nops, reactHist, arrived>>

\* a client that holds a token issued to user u connects
Connect(u) == Accept(SignedToken(u), u)

\* next(new Error(...)) of the middleware: the socket is closed without a
\* 'connection' event; its id is not used again
Reject(tok) ==
    /\ nextSock <= MaxSockets
    /\ nextSock' = nextSock + 1
    /\ sockToken' = [sockToken EXCEPT ![nextSock] = tok]
    /\ out' = << >>
    /\ UNCHANGED <<live, sockUser, onlineUsers, userSockets, rooms, store, channels,
                   inflight, now, nops, reactHist, arrived>>

\* io.use(...): a connection attempt that presents token tok
Handshake(tok) ==
    IF Verify(tok) = NoUser THEN Reject(tok) ELSE Accept(tok, Verify(tok))

\* socket.on('joinRoom')
JoinRoom(s, r) ==
    /\ s \in live
    /\ s \notin rooms[r]
    /\ rooms' = [rooms EXCEPT ![r] = @ \cup {s}]
    /\ out' = << >>
    /\ UNCHANGED <<live, sockUser, sockToken, nextSock, onlineUsers, userSockets, store,
                   inflight, now, nops, reactHist,
                   channels, arrived>>

\* socket.rooms as the 'disconnect' listener sees it: socket.io has already
\* removed the socket from every room (leaveAll) when it fires 'disconnect'
RoomsAtDisconnect(rms, s) == {r \in Rooms : s \in rms[r]}

\* a disconnect handler that leaves the presence mapping as it is
UnregisterNever(us, u, s) == us

\* the comparison of index.js:318 turned round: the entry is deleted when
\* it names another socket
UnregisterIfOther(us, u, s) == IF us[u] # s THEN [us EXCEPT ![u] = NoSock] ELSE us

\* a disconnect handler that leaves the online set as it is
GoOfflineNever(on, u) == on

\* index.js:329: onlineUsers.delete(userId)
GoOffline(on, u) == on \ {u}

\* index.js:319-321: the user's entry is deleted when it names this socket
Unregister(us, u, s) == IF us[u] = s THEN [us EXCEPT ![u] = NoSock] ELSE us

\* socket.on('disconnect')
Disconnect(s) ==
    /\ s \in live
    /\ LET u == sockUser[s]
           left == [r \in Rooms |-> rooms[r] \ {s}]
           peerLeft == [i \in 1 .. Len(SeqOfSet(RoomsAtDisconnect(left, s))) |->
                          LET r == SeqOfSet(RoomsAtDisconnect(left, s))[i] IN
                          Ev("peer-left", ToRoom(left, r) \ {s}, NoUser, "", {}, r, NoMsg)]
       IN
        /\ live' = live \ {s}
        /\ rooms' = left
        /\ userSockets' = Unregister(userSockets, u, s)
        /\ onlineUsers' = GoOffline(onlineUsers, u)
        /\ out' = peerLeft \o
                  << Ev("userStatus", ToAll(live'), u, "offline", {}, NoRoom, NoMsg) >>
    /\ UNCHANGED <<sockUser, sockToken, nextSock, store, inflight, now, nops, reactHist,
                   channels, arrived>>

-----------------------------------------------------------------------------
(* Relayed signals: handlers that only emit *)

\* socket.to(roomId) without the exclusion of the sender
ToOthersAndSelf(rms, r, s) == ToRoom(rms, r)

\* socket.to(roomId): the sockets joined to the room, except the socket itself
ToOthersInRoom(rms, r, s) == ToRoom(rms, r) \ {s}

Relay(name, s, r, sender) ==
    /\ s \in live
    /\ out' = << Ev(name, ToOthersInRoom(rooms, r, s), sender, "", {}, r, NoMsg) >>
    /\ UNCHANGED <<live, sockUser, sockToken, nextSock, onlineUsers, userSockets,
                   rooms, store, channels, inflight, now, nops, reactHist, arrived>>

\* socket.on('typing'); sender is the payload's field
Typing(s, r, sender) == Relay("typing", s, r, sender)

\* socket.on('stopTyping')
StopTyping(s, r, sender) == Relay("stopTyping", s, r, sender)

\* the three call handlers: the event is forwarded to userSockets[to] when
\* that entry exists, and nothing else is done
CallRelay(name, s, to, from, r) ==
    /\ s \in live
    /\ out' = IF to \in Users /\ userSockets[to] # NoSock
              THEN << Ev(name, ToSocketId(live, userSockets[to]), from, "", {}, r,
                         NoMsg) >>
              ELSE << >>
    /\ UNCHANGED <<live, sockUser, sockToken, nextSock, onlineUsers, userSockets,
                   rooms, store, channels, inflight, now, nops, reactHist, arrived>>

\* socket.on('call:request')
CallRequest(s, to, from, r) == CallRelay("call:incoming", s, to, from, r)

\* socket.on('call:accept')
CallAccept(s, to, from, r) == CallRelay("call:accepted", s, to, from, r)

\* socket.on('call:reject')
CallReject(s, to, from, r) == CallRelay("call:rejected", s, to, from, r)

-----------------------------------------------------------------------------
(* Channels over HTTP.  Two layers of the Express application match POST    *)
(* /api/channels and DELETE /api/channels/:id: the router of routes/channels *)
(* mounted at index.js:25 and the handlers registered at index.js:336-354.  *)
(* Express runs the layers in registration order and runs the next one only *)
(* when a handler calls next(); the router's handlers always answer and     *)
(* never call next().  A channel is identified by its name here.            *)

ChannelLayers == << "router", "app" >>
HandlingLayer == ChannelLayers[1]

Http(u, code) == Ev("http", {}, u, code, {}, NoRoom, NoMsg)
ChannelsUpdated == Ev("channelsUpdated", ToAll(live), NoUser, "", {}, NoRoom, NoMsg)

\* router.post('/') of routes/channels, for the authenticated user u
RouterPost(u, n) ==
    IF \E c \in channels : c.name = n
    THEN /\ channels' = channels
         /\ out' = << Http(u, "400") >>
    ELSE /\ channels' = channels \cup {[name |-> n, creator |-> u]}
         /\ out' = << Http(u, "201") >>

\* app.post('/api/channels') of index.js
AppPost(u, n) ==
    /\ channels' = channels \cup {[name |-> n, creator |-> u]}
    /\ out' = << ChannelsUpdated, Http(u, "201") >>

\* router.delete('/:id') of routes/channels
RouterDelete(u, n) ==
    IF ~ \E c \in channels : c.name = n
    THEN /\ channels' = channels
         /\ out' = << Http(u, "404") >>
    ELSE IF [name |-> n, creator |-> u] \notin channels
         THEN /\ channels' = channels
              /\ out' = << Http(u, "403") >>
         ELSE /\ channels' = channels \ {[name |-> n, creator |-> u]}
              /\ out' = << Http(u, "200") >>

\* app.delete('/api/channels/:id') of index.js
AppDelete(u, n) ==
    /\ channels' = {c \in channels : c.name # n}
    /\ out' = << ChannelsUpdated, Http(u, "204") >>

\* POST /api/channels with body {name: n}
PostChannel(u, n) ==
    /\ IF HandlingLayer = "router" THEN RouterPost(u, n) ELSE AppPost(u, n)
    /\ UNCHANGED <<live, sockUser, sockToken, nextSock, onlineUsers, userSockets,
                   rooms, store, inflight, now, nops, reactHist, arrived>>

\* DELETE /api/channels/:id
DeleteChannel(u, n) ==
    /\ IF HandlingLayer = "router" THEN RouterDelete(u, n) ELSE AppDelete(u, n)
    /\ UNCHANGED <<live, sockUser, sockToken, nextSock, onlineUsers, userSockets,
                   rooms, store, inflight, now, nops, reactHist, arrived>>

-----------------------------------------------------------------------------
(* Asynchronous handlers.  A handler occupies a slot of `inflight' from the  *)
(* event's arrival to its last emit.                                         *)

FreeSlot == CHOOSE h \in Slots : inflight[h] = Idle /\ \A g \in Slots : g < h => inflight[g] # Idle
HasFreeSlot == \E h \in Slots : inflight[h] = Idle

\* the handlers in flight without handler h, their order kept
Without(seq, h) == SelectSeq(seq, LAMBDA x : x # h)

Pending(kind) == Cardinality({h \in Slots : inflight[h].kind = kind /\ inflight[h].pc = "save"})

\* Message.findById(messageId): the stored document, or null
FindById(m) == IF m \in 1 .. Len(store) THEN store[m] ELSE NoDoc

\* userSockets[data.recipient], a socket id or undefined
RecipientSocket(rcp) == IF rcp \in Users THEN userSockets[rcp] ELSE NoSock

\* index.js:92-99: deliveredTo of a new direct message
DeliveredTo(type, rcp) ==
    IF type = "direct" /\ rcp # NoUser /\ RecipientSocket(rcp) # NoSock
    THEN <<rcp>> ELSE << >>

\* the sender taken from what the client sent: a user other than the
\* connection's
PayloadSender(s) == CHOOSE u \in Users : u # sockUser[s]

\* index.js:74, 83, 125, 136: sender: socket.user.userId
SocketSender(s) == sockUser[s]

\* socket.on('chatMessage'), up to the first await: the document is built
\* and messageDoc.save() is issued
ChatBeginWith(s, type, r, rcp, c) ==
    /\ s \in live
    /\ HasFreeSlot
    /\ Len(store) + Pending("chat") + Pending("file") + Pending("restChat") < MaxMsgs
    /\ LET doc == IF type = "channel"
                  THEN NewMessage(SocketSender(s), "channel", r, NoUser, c, << >>)
                  ELSE NewMessage(SocketSender(s), "direct", NoRoom, rcp, c,
                                  DeliveredTo(type, rcp))
       IN inflight' = [inflight EXCEPT ![FreeSlot] =
              Handler("chat", "save", s, sockUser[s], r, NoMsg, doc, "", "", NoUser)]
    /\ arrived' = Append(arrived, FreeSlot)
    /\ out' = << >>
    /\ UNCHANGED <<live, sockUser, sockToken, nextSock, onlineUsers, userSockets, rooms,
                   store, channels, now, nops, reactHist>>

\* a chatMessage that carries content
ChatBegin(s, type, r, rcp) == ChatBeginWith(s, type, r, rcp, "a")

\* the schema's validators (models/Message.js:3-8): sender and type are
\* required, type and messageType are enums; content has no validator
Validates(doc) ==
    /\ doc.sender # NoUser
    /\ doc.type \in {"channel", "direct"}
    /\ doc.messageType \in {"text", "image", "file"}

\* await messageDoc.save(): the document is validated and inserted; a
\* validation error is caught at index.js:113-115, which only logs
ChatSave(h) ==
    /\ inflight[h].kind = "chat" /\ inflight[h].pc = "save"
    /\ IF Validates(inflight[h].doc)
       THEN /\ store' = Append(store, inflight[h].doc)
            /\ inflight' = [inflight EXCEPT ![h].pc = "emit", ![h].msg = Len(store) + 1]
            /\ arrived' = arrived
       ELSE /\ store' = store
            /\ inflight' = [inflight EXCEPT ![h] = Idle]
            /\ arrived' = Without(arrived, h)
    /\ out' = << >>
    /\ UNCHANGED <<live, sockUser, sockToken, nextSock, onlineUsers, userSockets, rooms,
                   channels, now, nops, reactHist>>

\* index.js:102-112, after populate: the room emit, then the direct emit to
\* the recipient's registered socket when it is not in the room.  allSockets()
\* of the in-memory adapter resolves without I/O, so no event is handled
\* between the room emit and the membership test.
ChatDeliveries(h) ==
    LET d == inflight[h].doc
        r == inflight[h].room
        m == inflight[h].msg
        rs == RecipientSocket(d.recipient)
    IN << Ev("messageReceived", ToRoom(rooms, r), d.sender, "", {}, r, m) >> \o
       (IF d.type = "direct" /\ d.recipient # NoUser /\ rs # NoSock
           /\ rs \notin ToRoom(rooms, r)
        THEN << Ev("messageReceived", ToSocketId(live, rs), d.sender, "", {}, r, m) >>
        ELSE << >>)

ChatEmit(h) ==
    /\ inflight[h].kind = "chat" /\ inflight[h].pc = "emit"
    /\ out' = ChatDeliveries(h)
    /\ inflight' = [inflight EXCEPT ![h] = Idle]
    /\ arrived' = Without(arrived, h)
    /\ UNCHANGED <<live, sockUser, sockToken, nextSock, onlineUsers, userSockets, rooms,
                   store, channels, now, nops, reactHist>>

\* socket.on('fileMessage'), up to the first await: the document is built,
\* with messageType 'file' and without content or deliveredTo, and save()
\* is issued; the room is data.chatId and the recipient is data.to
FileBegin(s, type, r, rcp) ==
    /\ s \in live
    /\ HasFreeSlot
    /\ Len(store) + Pending("chat") + Pending("file") + Pending("restChat") < MaxMsgs
    /\ LET new == IF type = "channel"
                  THEN NewMessage(SocketSender(s), "channel", r, NoUser, NoContent, << >>)
                  ELSE NewMessage(SocketSender(s), "direct", NoRoom, rcp, NoContent, << >>)
           doc == [new EXCEPT !.messageType = "file"]
       IN inflight' = [inflight EXCEPT ![FreeSlot] =
              Handler("file", "save", s, sockUser[s], r, NoMsg, doc, "", "", NoUser)]
    /\ arrived' = Append(arrived, FreeSlot)
    /\ out' = << >>
    /\ UNCHANGED <<live, sockUser, sockToken, nextSock, onlineUsers, userSockets, rooms,
                   store, channels, now, nops, reactHist>>

\* await messageDoc.save() of the file message (index.js:144)
FileSave(h) ==
    /\ inflight[h].kind = "file" /\ inflight[h].pc = "save"
    /\ IF Validates(inflight[h].doc)
       THEN /\ store' = Append(store, inflight[h].doc)
            /\ inflight' = [inflight EXCEPT ![h].pc = "emit", ![h].msg = Len(store) + 1]
            /\ arrived' = arrived
       ELSE /\ store' = store
            /\ inflight' = [inflight EXCEPT ![h] = Idle]
            /\ arrived' = Without(arrived, h)
    /\ out' = << >>
    /\ UNCHANGED <<live, sockUser, sockToken, nextSock, onlineUsers, userSockets, rooms,
                   channels, now, nops, reactHist>>

\* index.js:146-155: the emit to data.chatId, then to the recipient's
\* registered socket when it is not in that room
FileDeliveries(h) ==
    LET d == inflight[h].doc
        r == inflight[h].room
        m == inflight[h].msg
        rs == RecipientSocket(d.recipient)
    IN << Ev("fileMessage", ToRoom(rooms, r), d.sender, "", {}, r, m) >> \o
       (IF d.type = "direct" /\ d.recipient # NoUser /\ rs # NoSock
           /\ rs \notin ToRoom(rooms, r)
        THEN << Ev("fileMessage", ToSocketId(live, rs), d.sender, "", {}, r, m) >>
        ELSE << >>)

FileEmit(h) ==
    /\ inflight[h].kind = "file" /\ inflight[h].pc = "emit"
    /\ out' = FileDeliveries(h)
    /\ inflight' = [inflight EXCEPT ![h] = Idle]
    /\ arrived' = Without(arrived, h)
    /\ UNCHANGED <<live, sockUser, sockToken, nextSock, onlineUsers, userSockets, rooms,
                   store, channels, now, nops, reactHist>>

\* POST /channel/:channelId and POST /direct/:userId (routes/messages.js:23-41,
\* 57-75) for the user u of the bearer token, with content in the body: the
\* channel or the recipient is looked up, and when it is found the document
\* is built and message.save() is issued.  found = FALSE: the lookup found
\* nothing and the route answers 404.
RestPostBegin(u, type, r, rcp, found) ==
    /\ HasFreeSlot
    /\ Len(store) + Pending("chat") + Pending("file") + Pending("restChat") < MaxMsgs
    /\ IF found
       THEN /\ LET doc == IF type = "channel"
                          THEN NewMessage(u, "channel", r, NoUser, "a", << >>)
                          ELSE NewMessage(u, "direct", NoRoom, rcp, "a", << >>)
               IN inflight' = [inflight EXCEPT ![FreeSlot] =
                      Handler("restChat", "save", NoSock, u, NoRoom, NoMsg, doc, "", "",
                              NoUser)]
            /\ arrived' = Append(arrived, FreeSlot)
            /\ out' = << >>
       ELSE /\ inflight' = inflight
            /\ arrived' = arrived
            /\ out' = << Ev("http", {}, u, "404", {}, NoRoom, NoMsg) >>
    /\ UNCHANGED <<live, sockUser, sockToken, nextSock, onlineUsers, userSockets, rooms,
                   store, channels, now, nops, reactHist>>

\* await message.save() of the route, and its answer 201; the routes emit
\* nothing to sockets
RestPostSave(h) ==
    /\ inflight[h].kind = "restChat" /\ inflight[h].pc = "save"
    /\ store' = Append(store, inflight[h].doc)
    /\ inflight' = [inflight EXCEPT ![h] = Idle]
    /\ arrived' = Without(arrived, h)
    /\ out' = << Ev("http", {}, inflight[h].user, "201", {}, NoRoom, Len(store) + 1) >>
    /\ UNCHANGED <<live, sockUser, sockToken, nextSock, onlineUsers, userSockets, rooms,
                   channels, now, nops, reactHist>>

-----------------------------------------------------------------------------
(* Edit, delete, read and react.  Each handler has three steps: the event   *)
(* arrives and findById reads the document; the continuation checks it,     *)
(* changes its copy and save() writes the changed paths; after populate the *)
(* result is emitted.  message.save() of a loaded document sends only the   *)
(* paths the handler changed; an array that was pushed to is sent as $push, *)
(* an array that was replaced is sent as $set guarded by the version __v.   *)

\* the common first step: the request is accepted and the document is read
Begin(kind, s, u, m, r, e, c, reader) ==
    /\ nops < MaxOps
    /\ HasFreeSlot
    /\ inflight' = [inflight EXCEPT ![FreeSlot] =
           Handler(kind, "save", s, u, r, m, FindById(m), e, c, reader)]
    /\ nops' = nops + 1
    /\ arrived' = Append(arrived, FreeSlot)
    /\ out' = << >>
    /\ UNCHANGED <<live, sockUser, sockToken, nextSock, onlineUsers, userSockets, rooms,
                   store, channels, now, reactHist>>

EditBegin(s, m, c, r) == s \in live /\ Begin("edit", s, sockUser[s], m, r, "", c, NoUser)
DeleteBegin(s, m, r) == s \in live /\ Begin("delete", s, sockUser[s], m, r, "", "", NoUser)
ReadBegin(s, m, reader, r) == s \in live /\ Begin("read", s, sockUser[s], m, r, "", "", reader)
ReactBegin(s, m, e, r) == s \in live /\ Begin("react", s, sockUser[s], m, r, e, "", NoUser)
\* the REST routes: the caller is the user of the bearer token
RestEditBegin(u, m, c) == Begin("restEdit", NoSock, u, m, NoRoom, "", c, NoUser)
RestDeleteBegin(u, m) == Begin("restDelete", NoSock, u, m, NoRoom, "", "", NoUser)
RestReactBegin(u, m, e) == Begin("restReact", NoSock, u, m, NoRoom, e, "", NoUser)

\* an error sent with io.to(roomId) instead of socket.emit
ReplyToRoom(h, info, code) ==
    << Ev("error", ToRoom(rooms, inflight[h].room), NoUser, info, {}, NoRoom,
          inflight[h].msg) >>

\* the reply of a handler that ends without a broadcast: socket.emit('error')
\* on the socket, res.status(code) on the REST route
Reply(h, info, code) ==
    IF inflight[h].sock # NoSock
    THEN << Ev("error", ToSelf(live, inflight[h].sock), NoUser, info, {}, NoRoom,
               inflight[h].msg) >>
    ELSE << Ev("http", {}, inflight[h].user, code, {}, NoRoom, inflight[h].msg) >>

\* the handler ends at this step with the given output, the store untouched
Finish(h, evs) ==
    /\ inflight' = [inflight EXCEPT ![h] = Idle]
    /\ arrived' = Without(arrived, h)
    /\ out' = evs
    /\ UNCHANGED <<live, sockUser, sockToken, nextSock, onlineUsers, userSockets, rooms,
                   store, channels, now, nops, reactHist>>

\* the author check left out
IsAuthorAnyone(doc, u) == TRUE

\* message.sender.toString() === socket.user.userId
IsAuthor(doc, u) == doc.sender = u

\* a save that writes the whole of the handler's copy over the stored document
SavedWholeDocument(h, stored, copy) ==
    /\ store' = [store EXCEPT ![inflight[h].msg] = copy]
    /\ inflight' = [inflight EXCEPT ![h].pc = "emit", ![h].doc = copy]
    /\ out' = << >>
    /\ UNCHANGED <<live, sockUser, sockToken, nextSock, onlineUsers, userSockets,
                   rooms, nops, channels, arrived>>

\* the handler's copy is written and the handler goes on to its emit
Saved(h, stored, copy) ==
    /\ store' = [store EXCEPT ![inflight[h].msg] = stored]
    /\ inflight' = [inflight EXCEPT ![h].pc = "emit", ![h].doc = copy]
    /\ out' = << >>
    /\ UNCHANGED <<live, sockUser, sockToken, nextSock, onlineUsers, userSockets, rooms, nops,
                   channels, arrived>>

\* editMessage (index.js:180-195) and PUT /:messageId (messages.js:104-115)
EditSave(h) ==
    /\ inflight[h].kind \in {"edit", "restEdit"} /\ inflight[h].pc = "save"
    /\ LET d == inflight[h].doc
           m == inflight[h].msg
       IN IF d = NoDoc THEN Finish(h, Reply(h, "not_found", "404"))
          ELSE IF ~IsAuthor(d, inflight[h].user)
          THEN Finish(h, Reply(h, "forbidden", "403"))
          ELSE /\ now' = now + 1
               /\ Saved(h, [store[m] EXCEPT !.content = inflight[h].content,
                                            !.isEdited = TRUE, !.editedAt = now + 1],
                           [d EXCEPT !.content = inflight[h].content,
                                     !.isEdited = TRUE, !.editedAt = now + 1])
               /\ UNCHANGED reactHist

\* deleteMessage (index.js:213-227) and DELETE /:messageId (messages.js:129-139)
DeleteSave(h) ==
    /\ inflight[h].kind \in {"delete", "restDelete"} /\ inflight[h].pc = "save"
    /\ LET d == inflight[h].doc
           m == inflight[h].msg
       IN IF d = NoDoc THEN Finish(h, Reply(h, "not_found", "404"))
          ELSE IF ~IsAuthor(d, inflight[h].user)
          THEN Finish(h, Reply(h, "forbidden", "403"))
          ELSE /\ Saved(h, [store[m] EXCEPT !.isDeleted = TRUE],
                           [d EXCEPT !.isDeleted = TRUE])
               /\ UNCHANGED <<now, reactHist>>

\* message.readBy.includes(userId)
AlreadyRead(doc, reader) == reader \in Range(doc.readBy)

\* messageRead (index.js:243-247): readBy.push is saved as $push, which
\* appends to the stored array and increments __v
ReadSave(h) ==
    /\ inflight[h].kind = "read" /\ inflight[h].pc = "save"
    /\ LET d == inflight[h].doc
           m == inflight[h].msg
           reader == inflight[h].reader
       IN IF d = NoDoc \/ AlreadyRead(d, reader) THEN Finish(h, << >>)
          ELSE /\ Saved(h, [store[m] EXCEPT !.readBy = Append(@, reader), !.v = @ + 1],
                           [d EXCEPT !.readBy = Append(@, reader), !.v = @ + 1])
               /\ UNCHANGED <<now, reactHist>>

\* reactions.find(r => r.user.toString() === userId): its emoji, or "none"
HeldBy(rs, u) ==
    LET mine == SelectSeq(rs, LAMBDA x : x.user = u)
    IN IF mine = << >> THEN "none" ELSE mine[1].emoji

\* reactions.filter(r => r.user.toString() !== userId)
Others(rs, u) == SelectSeq(rs, LAMBDA x : x.user # u)

\* the toggle left out: the new reaction is always added
ReactDocNoToggle(rs, u, e) == Append(Others(rs, u), [emoji |-> e, user |-> u])

\* index.js:267-273 and messages.js:159-165: the reactions of the handler's copy
ReactDoc(rs, u, e) ==
    IF HeldBy(rs, u) = "none" \/ HeldBy(rs, u) # e
    THEN Append(Others(rs, u), [emoji |-> e, user |-> u])
    ELSE Others(rs, u)

\* the history of the last two reacts of a user that were saved: the emoji,
\* the emoji the user held in the store just before, and whether the handler
\* ran serially (no array of the message was saved between its load and its
\* save, so the version it had loaded was still the stored one)
Remember(hist, e, held, serial) ==
    LET all == Append(hist, [emoji |-> e, held |-> held, serial |-> serial])
    IN IF Len(all) > 2 THEN Tail(all) ELSE all

\* reactToMessage (index.js:260-274) and POST /:messageId/reactions
\* (messages.js:155-166).  When the filter removed nothing the assignment
\* changes nothing and the push is saved as $push; otherwise the whole array
\* is saved with $set under the condition that __v is the version loaded, and
\* save() throws a VersionError when it is not.
ReactSave(h) ==
    /\ inflight[h].kind \in {"react", "restReact"} /\ inflight[h].pc = "save"
    /\ LET d == inflight[h].doc
           m == inflight[h].msg
           u == inflight[h].user
           e == inflight[h].emoji
           copy == [d EXCEPT !.reactions = ReactDoc(d.reactions, u, e), !.v = @ + 1]
           hist == [reactHist EXCEPT ![m][u] =
                       Remember(@, e, HeldBy(store[m].reactions, u),
                                d.v = store[m].v)]
       IN IF d = NoDoc THEN Finish(h, Reply(h, "not_found", "404"))
          ELSE IF Others(d.reactions, u) = d.reactions
          THEN /\ Saved(h, [store[m] EXCEPT
                              !.reactions = Append(@, [emoji |-> e, user |-> u]),
                              !.v = @ + 1], copy)
               /\ reactHist' = hist
               /\ UNCHANGED now
          ELSE IF store[m].v = d.v
          THEN /\ Saved(h, [store[m] EXCEPT !.reactions = copy.reactions,
                                            !.v = @ + 1], copy)
               /\ reactHist' = hist
               /\ UNCHANGED now
          ELSE Finish(h, Reply(h, "failed", "500"))

\* the last step: the broadcast to data.roomId, or the REST response
Broadcast(h, name) ==
    IF inflight[h].sock # NoSock
    THEN << Ev(name, ToRoom(rooms, inflight[h].room), inflight[h].user, "", {},
               inflight[h].room, inflight[h].msg) >>
    ELSE << Ev("http", {}, inflight[h].user, "200", {}, NoRoom, inflight[h].msg) >>

EditEmit(h) ==
    /\ inflight[h].kind \in {"edit", "restEdit"} /\ inflight[h].pc = "emit"
    /\ Finish(h, Broadcast(h, "messageEdited"))

DeleteEmit(h) ==
    /\ inflight[h].kind \in {"delete", "restDelete"} /\ inflight[h].pc = "emit"
    /\ Finish(h, Broadcast(h, "messageDeleted"))

ReadEmit(h) ==
    /\ inflight[h].kind = "read" /\ inflight[h].pc = "emit"
    /\ Finish(h, << Ev("messageReadUpdate", ToRoom(rooms, inflight[h].room),
                       inflight[h].reader, "", {}, inflight[h].room,
                       inflight[h].msg) >>)

ReactEmit(h) ==
    /\ inflight[h].kind \in {"react", "restReact"} /\ inflight[h].pc = "emit"
    /\ Finish(h, Broadcast(h, "messageReaction"))

-----------------------------------------------------------------------------
(* Failure of the store.  Every await of a handler is a call of the store   *)
(* (findById, save, populate) that may reject; the handler's catch block    *)
(* then runs and the handler ends.  No handler calls the store again.       *)

\* a catch block that emits the handler's broadcast all the same
CatchAndBroadcast(h) ==
    LET name == CASE inflight[h].kind = "chat" -> "messageReceived"
                  [] inflight[h].kind = "file" -> "fileMessage"
                  [] inflight[h].kind = "read" -> "messageReadUpdate"
                  [] inflight[h].kind = "edit" -> "messageEdited"
                  [] inflight[h].kind = "delete" -> "messageDeleted"
                  [] OTHER -> "messageReaction"
    IN << Ev(name, ToRoom(rooms, inflight[h].room), inflight[h].user, "", {},
             inflight[h].room, inflight[h].msg) >>

\* the catch blocks: chatMessage, fileMessage and messageRead only log
\* (index.js:113-115, 157-159, 251-253); editMessage, deleteMessage and
\* reactToMessage log and emit an error to the socket (index.js:202-205,
\* 234-237, 278-281); the REST routes answer 500
Catch(h) ==
    IF inflight[h].kind \in {"chat", "file", "read"}
    THEN << >>
    ELSE Reply(h, "failed", "500")

\* an awaited call of handler h rejects
StoreFails(h) ==
    /\ inflight[h].pc \in {"save", "emit"}
    /\ Finish(h, Catch(h))

-----------------------------------------------------------------------------
(* Specifications *)

Presence ==
    \/ \E u \in Users : Connect(u)
    \/ \E s \in Sockets : Disconnect(s)
    \/ \E s \in Sockets, r \in Rooms : JoinRoom(s, r)

Chat ==
    \/ \E s \in Sockets, type \in {"channel", "direct"}, r \in Rooms, rcp \in Users :
          ChatBegin(s, type, r, rcp)
    \/ \E h \in Slots : ChatSave(h)
    \/ \E h \in Slots : ChatEmit(h)

EditDelete ==
    \/ \E s \in Sockets, m \in MsgIds, c \in Contents, r \in Rooms : EditBegin(s, m, c, r)
    \/ \E s \in Sockets, m \in MsgIds, r \in Rooms : DeleteBegin(s, m, r)
    \/ \E u \in Users, m \in MsgIds, c \in Contents : RestEditBegin(u, m, c)
    \/ \E u \in Users, m \in MsgIds : RestDeleteBegin(u, m)
    \/ \E h \in Slots : EditSave(h)
    \/ \E h \in Slots : DeleteSave(h)
    \/ \E h \in Slots : EditEmit(h)
    \/ \E h \in Slots : DeleteEmit(h)

Read ==
    \/ \E s \in Sockets, m \in MsgIds, u \in Users, r \in Rooms : ReadBegin(s, m, u, r)
    \/ \E h \in Slots : ReadSave(h)
    \/ \E h \in Slots : ReadEmit(h)

React ==
    \/ \E s \in Sockets, m \in MsgIds, e \in Emojis, r \in Rooms : ReactBegin(s, m, e, r)
    \/ \E u \in Users, m \in MsgIds, e \in Emojis : RestReactBegin(u, m, e)
    \/ \E h \in Slots : ReactSave(h)
    \/ \E h \in Slots : ReactEmit(h)

\* connections, rooms and the sending of messages
NextPresence == Presence \/ Chat
SpecPresence == Init /\ [][NextPresence]_vars

\* the handlers below run over at most MaxMsgSockets connections
ConnectFew(u) == nextSock <= MaxMsgSockets /\ Connect(u)

\* editing and deleting, from sockets and over REST
NextEdit ==
    \/ \E u \in Users : ConnectFew(u)
    \/ Chat
    \/ EditDelete
SpecEdit == Init /\ [][NextEdit]_vars

\* reactions, from sockets and over REST
NextReact ==
    \/ \E u \in Users : ConnectFew(u)
    \/ Chat
    \/ React
SpecReact == Init /\ [][NextReact]_vars

\* read receipts
NextRead ==
    \/ \E u \in Users : ConnectFew(u)
    \/ Chat
    \/ Read
SpecRead == Init /\ [][NextRead]_vars

\* typing indicators and call signalling between connections that come and go
Signals ==
    \/ \E s \in Sockets, r \in Rooms, u \in Users : Typing(s, r, u)
    \/ \E s \in Sockets, r \in Rooms, u \in Users : StopTyping(s, r, u)
    \/ \E s \in Sockets, to \in Users, from \in Users, r \in Rooms :
          CallRequest(s, to, from, r)
    \/ \E s \in Sockets, to \in Users, from \in Users, r \in Rooms :
          CallAccept(s, to, from, r)
    \/ \E s \in Sockets, to \in Users, from \in Users, r \in Rooms :
          CallReject(s, to, from, r)

NextSignal ==
    \/ \E u \in Users : Connect(u)
    \/ \E s \in Sockets : Disconnect(s)
    \/ \E s \in Sockets, r \in Rooms : JoinRoom(s, r)
    \/ Signals
SpecSignal == Init /\ [][NextSignal]_vars

\* connection attempts with every kind of token, and what connections do
NextAuth ==
    \/ \E tok \in Tokens : Handshake(tok)
    \/ \E s \in Sockets : Disconnect(s)
    \/ \E s \in Sockets, r \in Rooms : JoinRoom(s, r)
    \/ Signals
SpecAuth == Init /\ [][NextAuth]_vars

\* channels are created and deleted while connections come and go
NextChannels ==
    \/ \E u \in Users : Connect(u)
    \/ \E s \in Sockets : Disconnect(s)
    \/ \E u \in Users, n \in ChannelNames : PostChannel(u, n)
    \/ \E u \in Users, n \in ChannelNames : DeleteChannel(u, n)
SpecChannels == Init /\ [][NextChannels]_vars

\* every operation on a stored message, from sockets and over REST
NextStore ==
    \/ \E u \in Users : ConnectFew(u)
    \/ \E s \in Sockets, r \in Rooms : ChatBegin(s, "channel", r, NoUser)
    \/ \E h \in Slots : ChatSave(h)
    \/ \E h \in Slots : ChatEmit(h)
    \/ EditDelete
    \/ Read
    \/ React
SpecStore == Init /\ [][NextStore]_vars

\* the sending of messages with and without content
NextSend ==
    \/ \E u \in Users : Connect(u)
    \/ \E s \in Sockets, r \in Rooms : JoinRoom(s, r)
    \/ \E s \in Sockets, type \in {"channel", "direct"}, r \in Rooms, rcp \in Users,
          c \in {"a", NoContent} : ChatBeginWith(s, type, r, rcp, c)
    \/ \E h \in Slots : ChatSave(h)
    \/ \E h \in Slots : ChatEmit(h)
SpecSend == Init /\ [][NextSend]_vars

\* the socket handlers that answer with an error event, over joined rooms
NextErrors ==
    \/ \E u \in Users : ConnectFew(u)
    \/ \E s \in Sockets, r \in Rooms : JoinRoom(s, r)
    \/ \E s \in Sockets, r \in Rooms : ChatBegin(s, "channel", r, NoUser)
    \/ \E h \in Slots : ChatSave(h)
    \/ \E h \in Slots : ChatEmit(h)
    \/ \E s \in Sockets, m \in MsgIds, c \in Contents, r \in Rooms : EditBegin(s, m, c, r)
    \/ \E s \in Sockets, m \in MsgIds, r \in Rooms : DeleteBegin(s, m, r)
    \/ \E s \in Sockets, m \in MsgIds, e \in Emojis, r \in Rooms : ReactBegin(s, m, e, r)
    \/ \E h \in Slots : EditSave(h)
    \/ \E h \in Slots : DeleteSave(h)
    \/ \E h \in Slots : ReactSave(h)
    \/ \E h \in Slots : EditEmit(h)
    \/ \E h \in Slots : DeleteEmit(h)
    \/ \E h \in Slots : ReactEmit(h)
SpecErrors == Init /\ [][NextErrors]_vars

\* messages of two channels, edited and deleted with a roomId of the
\* client's choice
NextRooms ==
    \/ \E u \in Users : ConnectFew(u)
    \/ \E s \in Sockets, r \in Rooms : JoinRoom(s, r)
    \/ \E s \in Sockets, r \in ChannelIds : ChatBegin(s, "channel", r, NoUser)
    \/ \E h \in Slots : ChatSave(h)
    \/ \E h \in Slots : ChatEmit(h)
    \/ \E s \in Sockets, m \in MsgIds, c \in Contents, r \in Rooms : EditBegin(s, m, c, r)
    \/ \E s \in Sockets, m \in MsgIds, r \in Rooms : DeleteBegin(s, m, r)
    \/ \E h \in Slots : EditSave(h)
    \/ \E h \in Slots : DeleteSave(h)
    \/ \E h \in Slots : EditEmit(h)
    \/ \E h \in Slots : DeleteEmit(h)
SpecRooms == Init /\ [][NextRooms]_vars

File ==
    \/ \E s \in Sockets, type \in {"channel", "direct"}, r \in Rooms, rcp \in Users :
          FileBegin(s, type, r, rcp)
    \/ \E h \in Slots : FileSave(h)
    \/ \E h \in Slots : FileEmit(h)

\* file messages between connections that come and go
NextFile ==
    \/ Presence
    \/ File
SpecFile == Init /\ [][NextFile]_vars

\* the socket handlers of messages, with a store that may fail
NextFail ==
    \/ \E u \in Users : ConnectFew(u)
    \/ \E s \in Sockets, r \in Rooms : ChatBegin(s, "channel", r, NoUser)
    \/ \E h \in Slots : ChatSave(h)
    \/ \E h \in Slots : ChatEmit(h)
    \/ \E s \in Sockets, r \in Rooms : FileBegin(s, "channel", r, NoUser)
    \/ \E h \in Slots : FileSave(h)
    \/ \E h \in Slots : FileEmit(h)
    \/ \E s \in Sockets, m \in MsgIds, c \in Contents, r \in Rooms : EditBegin(s, m, c, r)
    \/ \E s \in Sockets, m \in MsgIds, r \in Rooms : DeleteBegin(s, m, r)
    \/ \E h \in Slots : EditSave(h)
    \/ \E h \in Slots : DeleteSave(h)
    \/ \E h \in Slots : EditEmit(h)
    \/ \E h \in Slots : DeleteEmit(h)
    \/ Read
    \/ \E s \in Sockets, m \in MsgIds, e \in Emojis, r \in Rooms : ReactBegin(s, m, e, r)
    \/ \E h \in Slots : ReactSave(h)
    \/ \E h \in Slots : ReactEmit(h)
    \/ \E h \in Slots : StoreFails(h)
SpecFail == Init /\ [][NextFail]_vars

RestPost ==
    \/ \E u \in Users, type \in {"channel", "direct"}, r \in Rooms, rcp \in Users,
          found \in BOOLEAN : RestPostBegin(u, type, r, rcp, found)
    \/ \E h \in Slots : RestPostSave(h)

\* messages created by every handler and route, and the socket events that
\* operate on them
NextCore ==
    \/ \E u \in Users : ConnectFew(u)
    \/ Chat
    \/ File
    \/ RestPost
    \/ \E s \in Sockets, m \in MsgIds, r \in Rooms : EditBegin(s, m, "b", r)
    \/ \E s \in Sockets, m \in MsgIds, r \in Rooms : DeleteBegin(s, m, r)
    \/ \E s \in Sockets, m \in MsgIds, r \in Rooms : ReadBegin(s, m, sockUser[s], r)
    \/ \E s \in Sockets, m \in MsgIds, r \in Rooms : ReactBegin(s, m, "E", r)
    \/ \E h \in Slots : EditSave(h)
    \/ \E h \in Slots : DeleteSave(h)
    \/ \E h \in Slots : ReadSave(h)
    \/ \E h \in Slots : ReactSave(h)
    \/ \E h \in Slots : EditEmit(h)
    \/ \E h \in Slots : DeleteEmit(h)
    \/ \E h \in Slots : ReadEmit(h)
    \/ \E h \in Slots : ReactEmit(h)
SpecCore == Init /\ [][NextCore]_vars

Next == Presence \/ Chat \/ File \/ RestPost \/ EditDelete \/ Read \/ React \/ Signals
           \/ (\E h \in Slots : StoreFails(h))
Spec == Init /\ [][Next]_vars

-----------------------------------------------------------------------------
(* Properties *)

\* the users that have at least one live connection
LiveUsers == {sockUser[s] : s \in live}
LiveSocketsOf(u) == {s \in live : sockUser[s] = u}

\* the events of a step that name `ev' and, for presence events, a status
Events(evs, name, info) ==
    {i \in 1 .. Len(evs) : evs[i].ev = name /\ evs[i].info = info}

\* C1: in every reachable state the online-user set is exactly the set of
\* users that have at least one live connection.
C1_OnlineSetExact == onlineUsers = LiveUsers

\* C2: a disconnect marks the user offline and broadcasts userStatus
\* 'offline' only when it closes the user's last live connection; otherwise,
\* and when the connection is not the one registered for the user, the
\* presence state is unchanged and no offline event is broadcast.
C2_OfflineOnlyOnLast ==
    [][\A s \in Sockets :
         (s \in live /\ s \notin live') =>
            LET u == sockUser[s]
                last == LiveSocketsOf(u) = {s}
                offline == \E i \in Events(out', "userStatus", "offline") :
                              out'[i].user = u
            IN /\ offline <=> last
               /\ (u \in onlineUsers') <=> ~last
               /\ (userSockets[u] # s /\ ~last) => userSockets' = userSockets
      ]_vars

\* C3: a connect broadcasts userStatus 'online' exactly when it is the user's
\* first live connection, to all other connections; an additional connection
\* of an online user emits no online event.
C3_OnlineOnlyOnFirst ==
    [][\A s \in Sockets :
         (s \notin live /\ s \in live') =>
            LET u == sockUser'[s]
                first == LiveSocketsOf(u) = {}
                online == {i \in Events(out', "userStatus", "online") :
                              out'[i].user = u}
            IN /\ Cardinality(online) = (IF first THEN 1 ELSE 0)
               /\ \A i \in online : out'[i].to = live' \ {s}
      ]_vars

\* C4: on every accepted connection the connecting socket, and no other,
\* receives one currentOnline event whose userIds is every user with a live
\* connection, the connecting user included.
C4_CurrentOnlineIsLiveUsers ==
    [][\A s \in Sockets :
         (s \notin live /\ s \in live') =>
            LET cur == Events(out', "currentOnline", "")
            IN /\ Cardinality(cur) = 1
               /\ \A i \in cur : /\ out'[i].to = {s}
                                 /\ out'[i].users = {sockUser'[t] : t \in live'}
      ]_vars

\* the number of messageReceived events of the last step that reach socket s
Received(s) == Count(out, LAMBDA e : e.ev = "messageReceived" /\ s \in e.to)

\* C5: for a direct chatMessage sent into room R, every connection joined to
\* R and every live connection of the recipient receives exactly one
\* messageReceived.
C5_DirectExactlyOnce ==
    \A i \in 1 .. Len(out) :
       (out[i].ev = "messageReceived" /\ store[out[i].msg].type = "direct") =>
          \A s \in ToRoom(rooms, out[i].room)
                     \cup LiveSocketsOf(store[out[i].msg].recipient) :
             Received(s) = 1

\* C6: the deliveredTo of a direct chatMessage is {recipient} if the recipient
\* has at least one live connection when the handler builds the document, and
\* empty if the recipient has none.
C6_DeliveredIffLive ==
    [][\A h \in Slots :
         (inflight[h] = Idle /\ inflight'[h].kind = "chat"
            /\ inflight'[h].doc.type = "direct") =>
            LET rcp == inflight'[h].doc.recipient
            IN inflight'[h].doc.deliveredTo =
                  (IF LiveSocketsOf(rcp) # {} THEN <<rcp>> ELSE << >>)
      ]_vars

\* a handler of the edit or delete family that has loaded a message whose
\* author is another user, and takes its next step
RejectedStep(h) ==
    /\ inflight[h].kind \in {"edit", "delete", "restEdit", "restDelete"}
    /\ inflight[h].pc = "save"
    /\ inflight[h].doc # NoDoc
    /\ store[inflight[h].msg].sender # inflight[h].user
    /\ inflight'[h] # inflight[h]

Mine(rs, u) == SelectSeq(rs, LAMBDA x : x.user = u)

\* two reacts of u on m that ran one after the other
Successive(m, u) ==
    /\ Len(reactHist[m][u]) = 2
    /\ reactHist[m][u][1].serial /\ reactHist[m][u][2].serial

\* C8 as stated: two successive reacts with E by the same user leave no
\* reaction from that user, and react E followed by react F leaves exactly
\* one reaction from that user, with emoji F.
C8_ToggleLawAsStated ==
    \A m \in 1 .. Len(store), u \in Users :
       Successive(m, u) =>
          LET h == reactHist[m][u]
          IN IF h[1].emoji = h[2].emoji
             THEN Mine(store[m].reactions, u) = << >>
             ELSE Mine(store[m].reactions, u) = << [emoji |-> h[2].emoji, user |-> u] >>

\* C8, amended: two successive reacts with E by a user who did not hold E
\* before the first of them leave no reaction from that user; react E followed
\* by react F, E # F, leaves exactly one reaction from that user, with emoji F.
C8_ToggleLaw ==
    \A m \in 1 .. Len(store), u \in Users :
       Successive(m, u) =>
          LET h == reactHist[m][u]
          IN /\ (h[1].emoji = h[2].emoji /\ h[1].held # h[1].emoji) =>
                   Mine(store[m].reactions, u) = << >>
             /\ h[1].emoji # h[2].emoji =>
                   Mine(store[m].reactions, u) = << [emoji |-> h[2].emoji, user |-> u] >>

C8_Witness ==
    \E m \in 1 .. Len(store), u \in Users :
       /\ Successive(m, u)
       /\ reactHist[m][u][1].emoji = reactHist[m][u][2].emoji
       /\ reactHist[m][u][1].held # reactHist[m][u][1].emoji
       /\ Mine(store[m].reactions, u) = << >>

\* C9: in every reachable state each message holds at most one reaction entry
\* per user.
C9_OneReactionPerUser ==
    \A m \in 1 .. Len(store), u \in Users : Len(Mine(store[m].reactions, u)) <= 1

IsPrefix(a, b) == Len(a) <= Len(b) /\ SubSeq(b, 1, Len(a)) = a
NoDuplicates(seq) == Cardinality(Range(seq)) = Len(seq)

\* C10: for every message, readBy never shrinks and never contains the same
\* user identifier twice.
C10_ReadByMonotone ==
    [][\A m \in 1 .. Len(store) :
          /\ IsPrefix(store[m].readBy, store'[m].readBy)
          /\ NoDuplicates(store'[m].readBy)
      ]_vars

-----------------------------------------------------------------------------
(* Relayed signals *)

\* C11: a typing or stopTyping event sent by connection s into room r is
\* written to exactly the connections joined to r other than s: every other
\* joined connection gets it (one of the sender's own user too), and neither
\* s nor a connection outside r does.
C11_TypingToOthersInRoom ==
    [][\A s \in Sockets, r \in Rooms, u \in Users :
         (Typing(s, r, u) \/ StopTyping(s, r, u)) =>
             /\ Len(out') = 1
             /\ out'[1].ev \in {"typing", "stopTyping"}
             /\ \A c \in Sockets :
                   c \in out'[1].to <=> (c \in live /\ c \in rooms[r] /\ c # s)]_vars

\* a typing event has reached a second connection of the sender's user and
\* not the joined sender, while a third connection is outside the room
C11_Witness ==
    /\ Len(out) = 1 /\ out[1].ev \in {"typing", "stopTyping"}
    /\ \E s \in rooms[out[1].room] \ out[1].to :
         \E c \in out[1].to : sockUser[c] = sockUser[s]
    /\ \E x \in live : x \notin rooms[out[1].room]

\* one of the three call handlers runs for connection s and target user to
CallStep(s, to, from, r) ==
    CallRequest(s, to, from, r) \/ CallAccept(s, to, from, r) \/ CallReject(s, to, from, r)

CallEvents == {"call:incoming", "call:accepted", "call:rejected"}

\* C12: a call event whose target user has no live connection produces one
\* event only, an error written to the sending connection; nothing is
\* forwarded and nothing is broadcast.
C12_OfflineTargetError ==
    [][\A s \in Sockets, to \in Users, from \in Users, r \in Rooms :
         (CallStep(s, to, from, r) /\ LiveSocketsOf(to) = {}) =>
             /\ Len(out') = 1
             /\ out'[1].ev = "error"
             /\ out'[1].to = {s}]_vars

\* C13: a call event whose target user has live connections is forwarded to
\* every live connection of that user and to no connection of another user.
C13_ForwardedToAllOfTarget ==
    [][\A s \in Sockets, to \in Users, from \in Users, r \in Rooms :
         (CallStep(s, to, from, r) /\ LiveSocketsOf(to) # {}) =>
             /\ Len(out') = 1
             /\ out'[1].ev \in CallEvents
             /\ out'[1].to = LiveSocketsOf(to)]_vars

\* C14: when a connection s that has joined rooms disconnects, for each room
\* r it had joined a peer-left event is written to the other connections
\* joined to r.
C14_PeerLeftOnDisconnect ==
    [][\A s \in Sockets :
         Disconnect(s) =>
             \A r \in Rooms :
                 (s \in rooms[r] /\ rooms[r] \ {s} # {}) =>
                     \E i \in 1 .. Len(out') :
                         /\ out'[i].ev = "peer-left"
                         /\ out'[i].room = r
                         /\ out'[i].to = rooms[r] \ {s}]_vars

-----------------------------------------------------------------------------
(* Error replies *)

\* C15: an error event is produced only by the step in which a handler
\* fails, it is the only event of that step, and it is written to no socket
\* other than the connection that sent the failing event.
C15_ErrorOnlyToSender ==
    [][\A i \in 1 .. Len(out') :
         out'[i].ev = "error" =>
             /\ Len(out') = 1
             /\ \E h \in Slots :
                   /\ inflight[h].pc = "save" /\ inflight'[h] = Idle
                   /\ inflight[h].sock \in Sockets
                   /\ out'[i].to \subseteq {inflight[h].sock}]_vars

\* an error has been written to its sender while another connection is
\* joined to the room the failing event named
C15_Witness ==
    /\ Len(out) = 1 /\ out[1].ev = "error" /\ out[1].to # {}
    /\ \E r \in Rooms : rooms[r] \ out[1].to # {} /\ out[1].to \subseteq rooms[r]

\* C16: a chatMessage of kind text whose content is absent fails: the step
\* that ends its save stores nothing and its only event is an error written
\* to the sending connection, so no messageReceived follows.
C16_TextWithoutContentFails ==
    [][\A h \in Slots :
         (/\ inflight[h].kind = "chat" /\ inflight[h].pc = "save"
          /\ inflight[h].doc.messageType = "text"
          /\ inflight[h].doc.content = NoContent
          /\ inflight'[h] # inflight[h]) =>
             /\ store' = store
             /\ inflight'[h] = Idle
             /\ Len(out') = 1
             /\ out'[1].ev = "error"
             /\ out'[1].to = {inflight[h].sock} \cap live]_vars

-----------------------------------------------------------------------------
(* Authentication of connections *)

\* the sockets created so far whose token was missing or not validly signed
Refused == {s \in Sockets : s < nextSock /\ ~sockToken[s].signed}
\* the sockets created so far whose token was validly signed
Admitted == {s \in Sockets : s < nextSock /\ sockToken[s].signed}

\* C17: a connection attempt without a valid token is never registered: in
\* the step of the attempt no event is emitted and the presence structures
\* do not change; afterwards the socket is not connected, not in the
\* presence mapping, in no room, no event is written to it and no step
\* handles an event of it.  An admitted connection is bound to the user its
\* token was issued to, and the binding never changes.
C17_RefusedNeverRegistered ==
    [][/\ \A s \in Sockets :
            (s = nextSock /\ nextSock' = s + 1 /\ ~sockToken'[s].signed) =>
                /\ out' = << >>
                /\ onlineUsers' = onlineUsers
                /\ userSockets' = userSockets
                /\ live' = live
       /\ \A s \in Refused :
            /\ s \notin live'
            /\ \A u \in Users : userSockets'[u] # s
            /\ \A r \in Rooms : s \notin rooms'[r]
            /\ \A i \in 1 .. Len(out') : s \notin out'[i].to
            /\ \A r \in Rooms, u \in Users :
                  ~JoinRoom(s, r) /\ ~Typing(s, r, u) /\ ~StopTyping(s, r, u)
            /\ \A to \in Users, from \in Users, r \in Rooms : ~CallStep(s, to, from, r)
       /\ onlineUsers' \subseteq {sockToken'[s].user : s \in {x \in Sockets : x < nextSock' /\ sockToken'[x].signed}}
       /\ \A s \in Admitted :
            /\ sockUser[s] = sockToken[s].user
            /\ sockUser'[s] = sockUser[s]
            /\ sockToken'[s] = sockToken[s]]_vars

\* an attempt without a token and an attempt with a forged token for a user
\* have been refused, that user is not online, and another user's
\* connection was admitted and has emitted
C17_Witness ==
    /\ \E s \in Refused : sockToken[s] = NoToken
    /\ \E s \in Refused : sockToken[s].user \in Users \ onlineUsers
    /\ \E s \in Admitted : s \in live /\ out # << >>

-----------------------------------------------------------------------------
(* Channels *)

\* C18: every request that creates or deletes a channel emits, in the same
\* step, a channelsUpdated event written to all live connections.
C18_ChannelsUpdatedBroadcast ==
    [][\A u \in Users, n \in ChannelNames :
         ((PostChannel(u, n) \/ DeleteChannel(u, n)) /\ channels' # channels) =>
             \E i \in 1 .. Len(out') :
                 out'[i].ev = "channelsUpdated" /\ out'[i].to = live]_vars

-----------------------------------------------------------------------------
(* Soft delete *)

\* C19: a stored message whose isDeleted flag is true keeps it true in every
\* later step, whatever edit, delete, react or read handler saves, one that
\* loaded the message before the delete was saved included.
C19_SoftDeleteIrreversible ==
    [][\A m \in 1 .. Len(store) :
         store[m].isDeleted => (m <= Len(store') /\ store'[m].isDeleted)]_vars

\* a delete and an edit of the same message both loaded it before either
\* was saved, and both have saved: the message is deleted and edited
C19_Witness ==
    \E h \in Slots, g \in Slots :
        /\ inflight[h].kind \in {"edit", "restEdit"} /\ inflight[h].pc = "emit"
        /\ inflight[g].kind \in {"delete", "restDelete"} /\ inflight[g].pc = "emit"
        /\ inflight[h].msg = inflight[g].msg
        /\ ~inflight[h].doc.isDeleted
        /\ ~inflight[g].doc.isEdited
        /\ store[inflight[h].msg].isDeleted
        /\ store[inflight[h].msg].isEdited

-----------------------------------------------------------------------------
(* Disconnected sockets *)

\* C20: a socket that has disconnected is the target of no event, is named
\* by no entry of the presence mapping and is joined to no room; this holds
\* in the steps of handlers that were suspended when it disconnected too.
C20_NothingRoutedAfterDisconnect ==
    \A s \in Sockets \ live :
        /\ \A i \in 1 .. Len(out) : s \notin out[i].to
        /\ \A u \in Users : userSockets[u] # s
        /\ \A r \in Rooms : s \notin rooms[r]

\* a chatMessage handler has resumed and emitted a direct message whose
\* recipient was registered when it began (deliveredTo is set) and has
\* disconnected since, as has the sending socket or another one
C20_Witness ==
    \E i \in 1 .. Len(out) :
        /\ out[i].ev = "messageReceived"
        /\ out[i].msg \in 1 .. Len(store)
        /\ LET d == store[out[i].msg] IN
             /\ d.type = "direct"
             /\ d.deliveredTo # << >>
             /\ LiveSocketsOf(d.recipient) = {}
             /\ \E s \in Sockets \ live : sockUser[s] = d.recipient

-----------------------------------------------------------------------------
(* Persistence and broadcast *)

BroadcastEvents == {"messageReceived", "fileMessage", "messageEdited",
                    "messageDeleted", "messageReadUpdate", "messageReaction"}

\* the change that event e announces is in the store st (hist: the reacts
\* that were saved)
Persisted(st, hist, e) ==
    /\ e.msg \in 1 .. Len(st)
    /\ CASE e.ev = "messageReceived" -> st[e.msg].messageType = "text"
         [] e.ev = "fileMessage" -> st[e.msg].messageType = "file"
         [] e.ev = "messageEdited" -> st[e.msg].isEdited
         [] e.ev = "messageDeleted" -> st[e.msg].isDeleted
         [] e.ev = "messageReadUpdate" -> e.user \in Range(st[e.msg].readBy)
         [] e.ev = "messageReaction" -> hist[e.msg][e.user] # << >>
         [] OTHER -> TRUE

\* C21: an event that announces a message or a change of a message is
\* emitted only when that message or change is in the store, and the step
\* in which a call of the store fails emits no such event.
C21_PersistedBeforeBroadcast ==
    [][/\ \A i \in 1 .. Len(out') :
            out'[i].ev \in BroadcastEvents => Persisted(store', reactHist', out'[i])
       /\ \A h \in Slots :
            StoreFails(h) =>
                \A i \in 1 .. Len(out') : out'[i].ev \notin BroadcastEvents]_vars

\* the save of an edit, delete or react handler has failed: the sender has
\* the error, the stored message is as it was created and nothing was
\* broadcast
C21_Witness ==
    /\ Len(out) = 1 /\ out[1].ev = "error" /\ out[1].info = "failed"
    /\ out[1].msg \in 1 .. Len(store)
    /\ ~store[out[1].msg].isEdited /\ ~store[out[1].msg].isDeleted
    /\ store[out[1].msg].reactions = << >>

\* handler h of a socket has saved an edit and has its broadcast to emit
EditToEmit(h) == inflight[h].kind = "edit" /\ inflight[h].pc = "emit"

\* C22: the broadcasts for one message are emitted in the order in which
\* their changes were saved.  For edits, whose order of saving is the order
\* of editedAt: when a handler emits its messageEdited, no edit of the same
\* message that was saved before it still has its broadcast to emit.
C22_BroadcastOrderIsSaveOrder ==
    [][\A h \in Slots :
         (EditToEmit(h) /\ EditEmit(h)) =>
             \A g \in Slots \ {h} :
                 (EditToEmit(g) /\ inflight[g].msg = inflight[h].msg) =>
                     inflight[g].doc.editedAt > inflight[h].doc.editedAt]_vars

\* handler g began before handler h, and both are in flight
Before(g, h) ==
    \E i \in 1 .. Len(arrived), j \in 1 .. Len(arrived) :
        i < j /\ arrived[i] = g /\ arrived[j] = h

\* C23: the events of one connection are processed in arrival order: a
\* handler takes no step (it neither saves nor emits nor ends) while a
\* handler of an earlier event of the same connection is still in flight.
C23_PerConnectionOrder ==
    [][\A g \in Slots, h \in Slots :
         (/\ Before(g, h)
          /\ inflight[h].sock \in Sockets
          /\ inflight[g].sock = inflight[h].sock
          /\ inflight'[g] = inflight[g]) =>
             inflight'[h] = inflight[h]]_vars

\* C24: when a call of the store fails in a message handler of a socket,
\* the handler ends in that step, without another call of the store, and
\* the only event of the step is an error written to the socket that sent
\* the event.
C24_StoreFailureReported ==
    [][\A h \in Slots :
         (StoreFails(h) /\ inflight[h].sock \in Sockets) =>
             /\ inflight'[h] = Idle
             /\ store' = store
             /\ Len(out') = 1
             /\ out'[1].ev = "error"
             /\ out'[1].to = {inflight[h].sock} \cap live]_vars

-----------------------------------------------------------------------------
(* The room of a broadcast *)

\* C25: a messageEdited or messageDeleted event for a channel message is
\* written only to connections joined to the message's own channel,
\* whatever roomId the event named.
C25_EditBroadcastToOwnRoom ==
    [][\A i \in 1 .. Len(out') :
         (/\ out'[i].ev \in {"messageEdited", "messageDeleted"}
          /\ out'[i].msg \in 1 .. Len(store')
          /\ store'[out'[i].msg].type = "channel") =>
             out'[i].to \subseteq ToRoom(rooms', store'[out'[i].msg].channel)]_vars

-----------------------------------------------------------------------------
(* Lifecycle of a message *)

\* C26: a message is not edited after it was soft-deleted: no step changes
\* the content, isEdited or editedAt of a stored message whose isDeleted is
\* true.
C26_NoEditAfterDelete ==
    [][\A m \in 1 .. Len(store) :
         store[m].isDeleted =>
             /\ store'[m].content = store[m].content
             /\ store'[m].isEdited = store[m].isEdited
             /\ store'[m].editedAt = store[m].editedAt]_vars

-----------------------------------------------------------------------------
(* File messages *)

\* the target sets of a sequence of events, in order
Targets(evs) == [i \in 1 .. Len(evs) |-> evs[i].to]

\* C27: a direct fileMessage is sent as a direct chatMessage is: the
\* document it builds has deliveredTo = <<recipient>> when the recipient has
\* a live connection, and its emits reach the connections that the emits of
\* a chatMessage with the same room and recipient reach in the same state.
C27_FileAsChat ==
    [][\A h \in Slots :
         /\ (/\ inflight[h] = Idle
             /\ inflight'[h].kind = "file"
             /\ inflight'[h].doc.type = "direct"
             /\ LiveSocketsOf(inflight'[h].doc.recipient) # {}) =>
                 inflight'[h].doc.deliveredTo = << inflight'[h].doc.recipient >>
         /\ (inflight[h].kind = "file" /\ inflight[h].doc.type = "direct"
                /\ FileEmit(h)) =>
                 Targets(out') = Targets(ChatDeliveries(h))]_vars

-----------------------------------------------------------------------------
(* The sender of a call event *)

\* C28: the from field of a forwarded call event is the verified user of
\* the connection that sent it: for every call event of a step there is a
\* live connection of that user whose call handler made the step.
C28_CallFromIsVerifiedUser ==
    [][\A i \in 1 .. Len(out') :
         out'[i].ev \in CallEvents =>
             \E s \in live, to \in Users, r \in Rooms :
                 /\ CallStep(s, to, out'[i].user, r)
                 /\ sockUser[s] = out'[i].user]_vars

-----------------------------------------------------------------------------
(* Invariants of the presence structures *)

\* C29: every entry of userSockets names a connection that is live and was
\* authenticated, with a validly signed token, as the user of the entry.
C29_UserSocketsLiveAndOwn ==
    \A u \in Users :
        userSockets[u] # NoSock =>
            /\ userSockets[u] \in live
            /\ sockUser[userSockets[u]] = u
            /\ sockToken[userSockets[u]] = SignedToken(u)

\* a user's entry names a live connection of the user after another
\* connection of that user has disconnected, and after an attempt with a
\* forged token for that user was refused
C29_Witness ==
    \E u \in Users :
        /\ userSockets[u] \in live
        /\ \E s \in Sockets \ live : s < nextSock /\ sockUser[s] = u
        /\ \E s \in Refused : sockToken[s].user = u

\* C30: every user in the online set has at least one live connection.
C30_OnlineHasLiveConnection ==
    \A u \in onlineUsers : LiveSocketsOf(u) # {}

\* a user whose connections have all disconnected is not in the online set
\* while another user is
C30_Witness ==
    /\ \E s \in Sockets \ live :
         /\ s < nextSock /\ sockUser[s] \in Users
         /\ LiveSocketsOf(sockUser[s]) = {}
         /\ sockUser[s] \notin onlineUsers
    /\ onlineUsers # {}


\* the users that have an entry in the user-to-socket mapping
Registered == {u \in Users : userSockets[u] # NoSock}

\* C31: the two presence structures agree in every reachable state: a user
\* has an entry in userSockets if and only if the user is in onlineUsers.
C31_PresenceStructuresAgree == Registered = onlineUsers


-----------------------------------------------------------------------------
(* Concurrent reactions *)

\* C32: the save of a react by user u on message m changes no reaction entry
\* of another user: the entries of the other users are in the store after
\* the step as they were just before it, whatever was saved between the load
\* and the save of the handler.
C32_ReactKeepsOthers ==
    [][\A h \in Slots :
         ReactSave(h) =>
             \A m \in 1 .. Len(store) :
                 /\ Len(store') = Len(store)
                 /\ Others(store'[m].reactions, inflight[h].user) =
                       Others(store[m].reactions, inflight[h].user)]_vars

\* reacts of two users on one message both loaded it before either was
\* saved, and both have saved: each copy lacks the other's entry and the
\* store holds both
C32_Witness ==
    \E h \in Slots, g \in Slots :
        /\ inflight[h].kind \in {"react", "restReact"} /\ inflight[h].pc = "emit"
        /\ inflight[g].kind \in {"react", "restReact"} /\ inflight[g].pc = "emit"
        /\ inflight[h].msg = inflight[g].msg
        /\ inflight[h].user # inflight[g].user
        /\ Mine(inflight[h].doc.reactions, inflight[g].user) = << >>
        /\ Mine(inflight[g].doc.reactions, inflight[h].user) = << >>
        /\ Mine(store[inflight[h].msg].reactions, inflight[h].user) # << >>
        /\ Mine(store[inflight[h].msg].reactions, inflight[g].user) # << >>


-----------------------------------------------------------------------------
(* The core fields of a message *)

CoreFields(d) == <<d.sender, d.type, d.channel, d.recipient, d.messageType>>

\* C33: the sender of a message that is stored is the verified user of the
\* connection, or of the HTTP caller, whose event created it; and no step
\* removes a stored message or changes its sender, type, channel, recipient
\* or messageType, whatever edit, delete, read or react is saved.
C33_CoreFieldsImmutable ==
    [][/\ \A h \in Slots :
            ((ChatSave(h) \/ FileSave(h)) /\ Len(store') = Len(store) + 1) =>
                /\ sockToken[inflight[h].sock].signed
                /\ store'[Len(store')].sender = sockToken[inflight[h].sock].user
       /\ \A h \in Slots :
            RestPostSave(h) => store'[Len(store')].sender = inflight[h].user
       /\ Len(store') >= Len(store)
       /\ \A m \in 1 .. Len(store) : CoreFields(store'[m]) = CoreFields(store[m])]_vars

\* a direct message sent over a socket keeps its core fields after an edit,
\* a react and a delete were saved, while a connection of another user, the
\* recipient, is live
C33_Witness ==
    \E m \in 1 .. Len(store) :
        /\ store[m].type = "direct"
        /\ store[m].isEdited /\ store[m].isDeleted /\ store[m].reactions # << >>
        /\ store[m].recipient # store[m].sender
        /\ \E s \in live : sockUser[s] = store[m].recipient
        /\ \E s \in live : sockToken[s] = SignedToken(store[m].sender)


-----------------------------------------------------------------------------
(* Read receipts *)

\* C34: a user is added to the readBy of a message only by the messageRead
\* handler of a connection that was authenticated as that user: no
\* connection adds another user.
C34_ReadByOnlyOwnUser ==
    [][\A m \in 1 .. Len(store) :
         \A u \in Range(store'[m].readBy) \ Range(store[m].readBy) :
             \E h \in Slots :
                 /\ ReadSave(h)
                 /\ inflight[h].msg = m
                 /\ sockToken[inflight[h].sock] = SignedToken(u)]_vars

=============================================================================
